---- MODULE Spec2Model ----
(***************************************************************************)
(* Flow-log tagging pipeline of src/main.py: load_protocol_mapping,        *)
(* load_lookup_table, parse_flow_logs, write_output and main.              *)
(*                                                                         *)
(* Text is a sequence of one-character strings, so that strip, lower,      *)
(* split and the f-string formatting are computed, not assumed.  A Python  *)
(* dict is a sequence of [k, v] records in insertion order.                *)
(***************************************************************************)
EXTENDS Naturals, Sequences, FiniteSets, TLC

VARIABLES
    pc,                    \* the statement of main() / the loop the run is at
    protocol_file,         \* inputfiles/protocol_number_mapping.csv: [header, rows]
    lookup_file,           \* inputfiles/lookup_table_refer.csv: [header, rows]
    flow_log_file,         \* inputfiles/flow_log_data.txt: sequence of raw lines
    n,                     \* rows / lines consumed of the input that is open (0 when none is)
    protocol_mapping,      \* dict built by load_protocol_mapping
    lookup_dict,           \* dict built by load_lookup_table
    tag_counts,            \* defaultdict(int) of parse_flow_logs
    port_protocol_counts,  \* defaultdict(int) of parse_flow_logs
    output,                \* outputfiles/output_counts.txt: [opened, text]
    stdout,                \* what print() has written, in order
    completed,             \* the calls of main() that have returned, in order
    error                  \* the exception that ended the run: [type, in]

vars == << pc, protocol_file, lookup_file, flow_log_file, n, protocol_mapping,
           lookup_dict, tag_counts, port_protocol_counts, output, stdout,
           completed, error >>

-----------------------------------------------------------------------------
(* Bounds of the model.                                                    *)

\* rows a reference table holds at most
MaxRows == 2

\* lines the flow log holds at most
MaxLines == 3

-----------------------------------------------------------------------------
(* Text as sequences of characters.                                        *)

\* characters str.strip() and str.split() treat as whitespace
Whitespace == {" ", "\t", "\n", "\r", "\f"}

UpperChars == << "A", "B", "C", "D", "E", "F", "G", "H", "I", "J", "K", "L", "M",
                 "N", "O", "P", "Q", "R", "S", "T", "U", "V", "W", "X", "Y", "Z" >>

LowerChars == << "a", "b", "c", "d", "e", "f", "g", "h", "i", "j", "k", "l", "m",
                 "n", "o", "p", "q", "r", "s", "t", "u", "v", "w", "x", "y", "z" >>

\* the value csv.DictReader gives a column the row has no field for (restval)
None == << "<None>" >>

LowerChar(c) ==
    IF \E j \in 1..Len(UpperChars) : UpperChars[j] = c
    THEN LowerChars[CHOOSE j \in 1..Len(UpperChars) : UpperChars[j] = c]
    ELSE c

\* str.lower()
Lower(s) == [j \in 1..Len(s) |-> LowerChar(s[j])]

\* str.strip(): drop leading and trailing whitespace, keep what is inside
Strip(s) ==
    LET inside == {j \in 1..Len(s) : s[j] \notin Whitespace}
    IN  IF inside = {} THEN << >>
        ELSE LET first == CHOOSE j \in inside : \A k \in inside : j <= k
                 last  == CHOOSE j \in inside : \A k \in inside : k <= j
             IN  SubSeq(s, first, last)

RECURSIVE SplitFrom(_, _, _)
\* the fields of s from position j on; cur is the field being read
SplitFrom(s, j, cur) ==
    IF j > Len(s)
    THEN IF cur = << >> THEN << >> ELSE << cur >>
    ELSE IF s[j] \in Whitespace
         THEN IF cur = << >>
              THEN SplitFrom(s, j + 1, << >>)
              ELSE << cur >> \o SplitFrom(s, j + 1, << >>)
         ELSE SplitFrom(s, j + 1, Append(cur, s[j]))

\* str.split() with no argument: runs of whitespace separate, none are kept
Split(s) == SplitFrom(s, 1, << >>)

Digits == << "0", "1", "2", "3", "4", "5", "6", "7", "8", "9" >>

RECURSIVE Str(_)
\* str(int) of a non-negative integer, as an f-string formats it
Str(k) == IF k < 10 THEN << Digits[k + 1] >>
          ELSE Str(k \div 10) \o << Digits[(k % 10) + 1] >>

-----------------------------------------------------------------------------
(* Python dicts, insertion ordered.                                        *)

DictKeys(d) == {d[j].k : j \in 1..Len(d)}

DictIndex(d, key) == CHOOSE j \in 1..Len(d) : d[j].k = key

\* d.get(key, default)
DictGet(d, key, default) ==
    IF key \in DictKeys(d) THEN d[DictIndex(d, key)].v ELSE default

\* mutant: the first assignment to a key is kept
DictSetKeepFirst(d, key, value) ==
    IF key \in DictKeys(d) THEN d ELSE Append(d, [k |-> key, v |-> value])

\* d[key] = value
DictSet(d, key, value) ==
    IF key \in DictKeys(d)
    THEN [d EXCEPT ![DictIndex(d, key)].v = value]
    ELSE Append(d, [k |-> key, v |-> value])

\* mutant: an incremented key is taken out and put back at the end
DictIncrMoveToEnd(d, key) ==
    Append(SelectSeq(d, LAMBDA e : e.k # key), [k |-> key, v |-> DictGet(d, key, 0) + 1])

\* mutant: an existing key is reset to one instead of incremented
DictIncrReset(d, key) == DictSet(d, key, 1)

\* d[key] += 1 on a defaultdict(int)
DictIncr(d, key) == DictSet(d, key, DictGet(d, key, 0) + 1)

RECURSIVE DictSum(_)
DictSum(d) == IF d = << >> THEN 0 ELSE d[1].v + DictSum(Tail(d))

-----------------------------------------------------------------------------
(* The input files.                                                        *)

\* all sequences over S of length at most k
SeqsUpTo(S, k) == UNION {[1..m -> S] : m \in 0..k}

RECURSIVE Join(_, _)
\* the fields written one after the other with sep between them
Join(fields, sep) ==
    IF fields = << >> THEN << >>
    ELSE IF Len(fields) = 1 THEN fields[1]
         ELSE fields[1] \o sep \o Join(Tail(fields), sep)

\* a version 2 flow record in the column order of LOG_COLUMN_MAP
FlowFields(dstport, protocol) ==
    << <<"2">>, <<"1">>, <<"e">>, <<"a">>, <<"b">>, dstport, <<"4">>, protocol,
       <<"1">>, <<"9">>, <<"0">>, <<"0">>, <<"A">>, <<"O">> >>

\* raw lines a flow log may hold, each as the file iterator yields it
FlowLineChoices ==
    { Join(FlowFields(<<"2","3">>, <<"6">>), <<" ">>) \o <<"\n">>,
      <<" ">> \o Join(FlowFields(<<"2","3">>, <<"9","9">>), <<"\t"," ">>) \o <<" ","\r","\n">>,
      Join(FlowFields(<<"9","9","9">>, <<"1","7">>), <<" ">>),
      Join(SubSeq(FlowFields(<<"2","3">>, <<"6">>), 1, 13), <<" ">>) \o <<"\n">>,
      Join(Append(FlowFields(<<"2","3">>, <<"6">>), <<"x">>), <<" ">>) \o <<"\n">>,
      <<"\n">> }

\* rows (as the csv reader splits them) a protocol table may hold
ProtocolRowChoices ==
    { << <<"6">>, <<"T","C","P">> >>,
      << <<" ","6">>, <<"U","D","P"," ">> >>,
      << <<"1","7">>, <<" ","u","d","p">> >>,
      << <<"6">> >> }

ProtocolHeaders ==
    { <<"Decimal", "Keyword">>, <<"Decimal">>, <<"Keyword">> }

\* rows a lookup table may hold; the empty row is a blank line
LookupRowChoices ==
    { << <<"2","3">>, <<"t","c","p">>, <<"s","v","_","P","1">> >>,
      << <<" ","2","3">>, <<"T","C","P"," ">>, <<" ","s","v","_","P","2">> >>,
      << <<"2","3">>, <<"U","n","d","e","f","i","n","e","d">>, <<"e","m","a","i","l">> >>,
      << <<"9","9","9">>, <<"u","d","p">>, <<"U","n","t","a","g","g","e","d">> >>,
      << <<"2","3">>, <<"t","c","p">> >>,
      << >> }

LookupHeaders ==
    { <<"dstport", "protocol", "tag">>, <<"protocol", "tag">>,
      <<"dstport", "tag">>, <<"dstport", "protocol">> }

ProtocolFiles ==
    [header : ProtocolHeaders, rows : SeqsUpTo(ProtocolRowChoices, MaxRows)]

LookupFiles ==
    [header : LookupHeaders, rows : SeqsUpTo(LookupRowChoices, MaxRows)]

FlowLogFiles == SeqsUpTo(FlowLineChoices, MaxLines)

\* well-formed reference tables used while another file varies
FixedProtocolFiles ==
    { [header |-> <<"Decimal", "Keyword">>,
       rows |-> << << <<"6">>, <<"T","C","P">> >>, << <<"1","7">>, <<" ","u","d","p">> >> >>],
      [header |-> <<"Decimal", "Keyword">>,
       rows |-> << << <<" ","6">>, <<"U","D","P"," ">> >> >>] }

FixedLookupFiles ==
    { [header |-> <<"dstport", "protocol", "tag">>,
       rows |-> << << <<"2","3">>, <<"t","c","p">>, <<"s","v","_","P","1">> >>,
                   << <<"2","3">>, <<"U","n","d","e","f","i","n","e","d">>, <<"e","m","a","i","l">> >> >>],
      [header |-> <<"dstport", "protocol", "tag">>,
       rows |-> << << <<"9","9","9">>, <<"u","d","p">>, <<"U","n","t","a","g","g","e","d">> >>,
                   << <<"2","3">>, <<"t","c","p">>, <<"s","v","_","P","1">> >>,
                   << <<" ","2","3">>, <<"T","C","P"," ">>, <<" ","s","v","_","P","2">> >> >>] }

FixedFlowLogFiles ==
    { << Join(FlowFields(<<"2","3">>, <<"6">>), <<" ">>) \o <<"\n">>,
         Join(FlowFields(<<"9","9","9">>, <<"1","7">>), <<" ">>) >> }

-----------------------------------------------------------------------------
(* The program.                                                            *)

\* column name -> position in a flow record (0-based, as in the source)
LOG_COLUMN_MAP ==
    [version |-> 0, account_id |-> 1, interface_id |-> 2, src_addr |-> 3,
     dst_addr |-> 4, dstport |-> 5, srcport |-> 6, protocol |-> 7, packets |-> 8,
     bytes |-> 9, start |-> 10, end |-> 11, action |-> 12, log_status |-> 13]

\* mutant: a column the header lacks reads as the empty string
DictRowDefaulting(header, fields) ==
    [c \in {header[j] : j \in 1..Len(header)}
           \cup {"Decimal", "Keyword", "dstport", "protocol", "tag"} |->
        IF \E j \in 1..Len(header) : header[j] = c
        THEN LET j == CHOOSE j \in 1..Len(header) : header[j] = c
             IN  IF j <= Len(fields) THEN fields[j] ELSE None
        ELSE << >>]

\* the row csv.DictReader yields for the fields of one line: the header's columns,
\* None for a column the line is too short for (fields beyond the header go
\* under the key None, which nothing reads)
DictRow(header, fields) ==
    [c \in {header[j] : j \in 1..Len(header)} |->
        LET j == CHOOSE j \in 1..Len(header) : header[j] = c
        IN  IF j <= Len(fields) THEN fields[j] ELSE None]

\* the exception raised by evaluating row[c].strip() for the columns cols in
\* order: KeyError for a column the header lacks, AttributeError for None.strip()
RowError(row, cols) ==
    LET bad == {j \in 1..Len(cols) : cols[j] \notin DOMAIN row \/ row[cols[j]] = None}
    IN  IF bad = {} THEN "none"
        ELSE LET j == CHOOSE j \in bad : \A k \in bad : j <= k
             IN  IF cols[j] \notin DOMAIN row THEN "KeyError" ELSE "AttributeError"

\* protocol_number = row['Decimal'].strip()
ProtocolKey(row) == Strip(row["Decimal"])

\* protocol_name = row['Keyword'].strip()
ProtocolValue(row) == Strip(row["Keyword"])

\* key = (row['dstport'].strip(), row['protocol'].strip().lower())
LookupKey(row) == << Strip(row["dstport"]), Lower(Strip(row["protocol"])) >>

\* row['tag'].strip()
LookupValue(row) == Strip(row["tag"])

NoError == [type |-> "none", in |-> "none"]

Undefined == << "U", "n", "d", "e", "f", "i", "n", "e", "d" >>

Untagged == << "U", "n", "t", "a", "g", "g", "e", "d" >>

\* mutant: the line is taken when it has at least the columns that are read
ValidRecordAtLeast(columns) == Len(columns) > LOG_COLUMN_MAP.protocol

\* not (len(columns) != len(LOG_COLUMN_MAP))
ValidRecord(columns) == Len(columns) = Cardinality(DOMAIN LOG_COLUMN_MAP)

\* dstport = columns[LOG_COLUMN_MAP["dstport"]]
DstPort(columns) == columns[LOG_COLUMN_MAP.dstport + 1]

\* mutant: the protocol name is used as the table spells it
ProtocolNoLower(columns, mapping) ==
    DictGet(mapping, columns[LOG_COLUMN_MAP.protocol + 1], Undefined)

\* mutant: a number the mapping lacks stands for itself
ProtocolMissingKept(columns, mapping) ==
    Lower(DictGet(mapping, columns[LOG_COLUMN_MAP.protocol + 1],
                  columns[LOG_COLUMN_MAP.protocol + 1]))

\* protocol = protocol_mapping.get(columns[LOG_COLUMN_MAP["protocol"]], "Undefined").lower()
Protocol(columns, mapping) ==
    Lower(DictGet(mapping, columns[LOG_COLUMN_MAP.protocol + 1], Undefined))

\* mutant: the key is built in the wrong order
TagKeySwapped(lookup, dstport, protocol) ==
    DictGet(lookup, << protocol, dstport >>, Untagged)

\* tag = lookup_dict.get((dstport, protocol), "Untagged")
Tag(lookup, dstport, protocol) == DictGet(lookup, << dstport, protocol >>, Untagged)

TagSectionHeader ==
    << "T", "a", "g", " ", "C", "o", "u", "n", "t", "s", ":", "\n",
       "T", "a", "g", ",", "C", "o", "u", "n", "t", "\n" >>

PortSectionHeader ==
    << "\n", "P", "o", "r", "t", "/", "P", "r", "o", "t", "o", "c",
       "o", "l", " ", "C", "o", "m", "b", "i", "n", "a", "t", "i",
       "o", "n", " ", "C", "o", "u", "n", "t", "s", ":", "\n", "P",
       "o", "r", "t", ",", "P", "r", "o", "t", "o", "c", "o", "l",
       ",", "C", "o", "u", "n", "t", "\n" >>

RECURSIVE TagLines(_)
\* for tag, count in tag_counts.items(): file.write(f"{tag},{count}\n")
TagLines(d) ==
    IF d = << >> THEN << >>
    ELSE d[1].k \o << "," >> \o Str(d[1].v) \o << "\n" >> \o TagLines(Tail(d))

RECURSIVE PortLines(_)
\* for (port, protocol), count in ...items(): file.write(f"{port},{protocol},{count}\n")
PortLines(d) ==
    IF d = << >> THEN << >>
    ELSE d[1].k[1] \o << "," >> \o d[1].k[2] \o << "," >> \o Str(d[1].v) \o << "\n" >>
         \o PortLines(Tail(d))

\* everything write_output writes to the file
Report(tags, ports) ==
    TagSectionHeader \o TagLines(tags) \o PortSectionHeader \o PortLines(ports)

\* the function a statement of the run belongs to
FunctionAt(at) ==
    CASE at \in {"load_protocol_mapping", "protocol_rows"} -> "load_protocol_mapping"
      [] at \in {"load_lookup_table", "lookup_rows"} -> "load_lookup_table"
      [] at \in {"parse_flow_logs", "flow_lines"} -> "parse_flow_logs"
      [] OTHER -> at

\* mutant: the exception is recorded and the run goes on
RaiseSwallowed(type) ==
    /\ error' = [type |-> type, in |-> FunctionAt(pc)]
    /\ pc' = pc

\* an exception nobody catches ends main()
Raise(type) ==
    /\ error' = [type |-> type, in |-> FunctionAt(pc)]
    /\ pc' = "aborted"

Inputs ==
    \/ /\ protocol_file \in ProtocolFiles
       /\ lookup_file \in FixedLookupFiles
       /\ flow_log_file \in FixedFlowLogFiles
    \/ /\ protocol_file \in FixedProtocolFiles
       /\ lookup_file \in LookupFiles
       /\ flow_log_file \in FixedFlowLogFiles
    \/ /\ protocol_file \in FixedProtocolFiles
       /\ lookup_file \in FixedLookupFiles
       /\ flow_log_file \in FlowLogFiles

Init ==
    /\ Inputs
    /\ pc = "load_protocol_mapping"
    /\ n = 0
    /\ protocol_mapping = << >>
    /\ lookup_dict = << >>
    /\ tag_counts = << >>
    /\ port_protocol_counts = << >>
    /\ output = [opened |-> FALSE, text |-> << >>]
    /\ stdout = << >>
    /\ completed = << >>
    /\ error = NoError

files == << protocol_file, lookup_file, flow_log_file >>

\* with open(...) as file: of the three readers
OpenInput ==
    /\ pc \in {"load_protocol_mapping", "load_lookup_table", "parse_flow_logs"}
    /\ pc' = CASE pc = "load_protocol_mapping" -> "protocol_rows"
               [] pc = "load_lookup_table" -> "lookup_rows"
               [] pc = "parse_flow_logs" -> "flow_lines"
    /\ n' = 0
    /\ UNCHANGED << files, protocol_mapping, lookup_dict, tag_counts,
                    port_protocol_counts, output, stdout, completed, error >>

\* open() of an input or of the output file raises OSError
OpenRaises ==
    /\ pc \in {"load_protocol_mapping", "load_lookup_table", "parse_flow_logs",
               "write_output"}
    /\ Raise("OSError")
    /\ UNCHANGED << files, n, protocol_mapping, lookup_dict, tag_counts,
                    port_protocol_counts, output, stdout, completed >>

\* reading the next row or line of an open input raises OSError
ReadRaises ==
    /\ pc \in {"protocol_rows", "lookup_rows", "flow_lines"}
    /\ Raise("OSError")
    /\ UNCHANGED << files, n, protocol_mapping, lookup_dict, tag_counts,
                    port_protocol_counts, output, stdout, completed >>

\* one iteration of the loop of load_protocol_mapping
load_protocol_mapping_row ==
    /\ pc = "protocol_rows"
    /\ n < Len(protocol_file.rows)
    /\ LET fields == protocol_file.rows[n + 1]
           row == DictRow(protocol_file.header, fields)
           err == RowError(row, << "Decimal", "Keyword" >>)
       IN  IF fields = << >>
           THEN /\ n' = n + 1
                /\ UNCHANGED << pc, protocol_mapping, error >>
           ELSE IF err # "none"
           THEN /\ Raise(err)
                /\ UNCHANGED << n, protocol_mapping >>
           ELSE /\ protocol_mapping' =
                       DictSet(protocol_mapping, ProtocolKey(row), ProtocolValue(row))
                /\ n' = n + 1
                /\ UNCHANGED << pc, error >>
    /\ UNCHANGED << files, lookup_dict, tag_counts, port_protocol_counts, output,
                    stdout, completed >>

\* return protocol_map
load_protocol_mapping_return ==
    /\ pc = "protocol_rows"
    /\ n = Len(protocol_file.rows)
    /\ completed' = Append(completed, "load_protocol_mapping")
    /\ pc' = "load_lookup_table"
    /\ n' = 0
    /\ UNCHANGED << files, protocol_mapping, lookup_dict, tag_counts,
                    port_protocol_counts, output, stdout, error >>

\* one iteration of the loop of load_lookup_table; print(row) comes first
load_lookup_table_row ==
    /\ pc = "lookup_rows"
    /\ n < Len(lookup_file.rows)
    /\ LET fields == lookup_file.rows[n + 1]
           row == DictRow(lookup_file.header, fields)
           err == RowError(row, << "dstport", "protocol", "tag" >>)
       IN  IF fields = << >>
           THEN /\ n' = n + 1
                /\ UNCHANGED << pc, lookup_dict, stdout, error >>
           ELSE /\ stdout' = Append(stdout, << "row", row >>)
                /\ IF err # "none"
                   THEN /\ Raise(err)
                        /\ UNCHANGED << n, lookup_dict >>
                   ELSE /\ lookup_dict' =
                               DictSet(lookup_dict, LookupKey(row), LookupValue(row))
                        /\ n' = n + 1
                        /\ UNCHANGED << pc, error >>
    /\ UNCHANGED << files, protocol_mapping, tag_counts, port_protocol_counts,
                    output, completed >>

\* return lookup_dict
load_lookup_table_return ==
    /\ pc = "lookup_rows"
    /\ n = Len(lookup_file.rows)
    /\ completed' = Append(completed, "load_lookup_table")
    /\ pc' = "parse_flow_logs"
    /\ n' = 0
    /\ UNCHANGED << files, protocol_mapping, lookup_dict, tag_counts,
                    port_protocol_counts, output, stdout, error >>

\* one iteration of the loop of parse_flow_logs
parse_flow_logs_line ==
    /\ pc = "flow_lines"
    /\ n < Len(flow_log_file)
    /\ LET columns == Split(flow_log_file[n + 1])
       IN  IF ~ValidRecord(columns)
           THEN UNCHANGED << tag_counts, port_protocol_counts >>
           ELSE LET dstport == DstPort(columns)
                    protocol == Protocol(columns, protocol_mapping)
                    tag == Tag(lookup_dict, dstport, protocol)
                IN  /\ tag_counts' = DictIncr(tag_counts, tag)
                    /\ port_protocol_counts' =
                           DictIncr(port_protocol_counts, << dstport, protocol >>)
    /\ n' = n + 1
    /\ UNCHANGED << pc, files, protocol_mapping, lookup_dict, output, stdout,
                    completed, error >>

\* return tag_counts, port_protocol_counts
parse_flow_logs_return ==
    /\ pc = "flow_lines"
    /\ n = Len(flow_log_file)
    /\ completed' = Append(completed, "parse_flow_logs")
    /\ pc' = "write_output"
    /\ n' = 0
    /\ UNCHANGED << files, protocol_mapping, lookup_dict, tag_counts,
                    port_protocol_counts, output, stdout, error >>

\* write_output: the file is opened for writing and both sections are written
write_output ==
    /\ pc = "write_output"
    /\ output' = [opened |-> TRUE, text |-> Report(tag_counts, port_protocol_counts)]
    /\ completed' = Append(completed, "write_output")
    /\ pc' = "print"
    /\ UNCHANGED << files, n, protocol_mapping, lookup_dict, tag_counts,
                    port_protocol_counts, stdout, error >>

\* print("Processing complete. Results saved to", output_file)
print_complete ==
    /\ pc = "print"
    /\ stdout' = Append(stdout, << "notice", "outputfiles/output_counts.txt" >>)
    /\ completed' = Append(completed, "print")
    /\ pc' = "done"
    /\ UNCHANGED << files, n, protocol_mapping, lookup_dict, tag_counts,
                    port_protocol_counts, output, error >>

Next ==
    \/ OpenInput
    \/ OpenRaises
    \/ ReadRaises
    \/ load_protocol_mapping_row
    \/ load_protocol_mapping_return
    \/ load_lookup_table_row
    \/ load_lookup_table_return
    \/ parse_flow_logs_line
    \/ parse_flow_logs_return
    \/ write_output
    \/ print_complete

Spec == Init /\ [][Next]_vars

-----------------------------------------------------------------------------
(* What the claims speak of, computed from the input files.                *)

\* lines of the flow log parse_flow_logs has consumed so far
Processed ==
    IF \E j \in 1..Len(completed) : completed[j] = "parse_flow_logs"
    THEN Len(flow_log_file)
    ELSE IF pc = "flow_lines" \/ error.in = "parse_flow_logs" THEN n ELSE 0

\* the line has exactly 14 whitespace-separated fields
HasFourteenFields(line) == Len(Split(line)) = 14

RECURSIVE CountFourteen(_)
\* how many of the first k lines of the flow log have exactly 14 fields
CountFourteen(k) ==
    IF k = 0 THEN 0
    ELSE CountFourteen(k - 1) + (IF HasFourteenFields(flow_log_file[k]) THEN 1 ELSE 0)

\* the step consumes the next line of the flow log (it is not a failing read)
ConsumesLine ==
    /\ pc = "flow_lines"
    /\ n < Len(flow_log_file)
    /\ error'.type # "OSError"

\* from d to e exactly one entry went up by exactly one, all others are as they were
ExactlyOneIncremented(d, e) ==
    \E key \in DictKeys(e) :
        /\ DictGet(e, key, 0) = DictGet(d, key, 0) + 1
        /\ \A other \in (DictKeys(d) \cup DictKeys(e)) \ {key} :
               DictGet(e, other, 0) = DictGet(d, other, 0)
        /\ Len(e) = Cardinality(DictKeys(e))

\* C1: processing a line of exactly 14 fields increments exactly one entry of
\* tag_counts by one and exactly one entry of port_protocol_counts by one, and
\* leaves every other entry of both as it was
C1_ValidLineIncrementsOneOfEach ==
    [][ (ConsumesLine /\ HasFourteenFields(flow_log_file[n + 1]))
        => /\ ExactlyOneIncremented(tag_counts, tag_counts')
           /\ ExactlyOneIncremented(port_protocol_counts, port_protocol_counts') ]_vars

\* a record has gone to an entry that existed and another has made a new entry
C1_Witness ==
    /\ pc = "flow_lines"
    /\ n = 3
    /\ CountFourteen(3) = 3
    /\ Len(port_protocol_counts) = 2
    /\ \E j \in 1..Len(tag_counts) : tag_counts[j].v = 2

\* C2: processing a line whose field count is not 14 (an empty line and a line
\* of more than 14 fields included) changes neither counter, raises nothing, and
\* the loop goes on to the next line
C2_InvalidLineSkipped ==
    [][ (ConsumesLine /\ ~HasFourteenFields(flow_log_file[n + 1]))
        => /\ tag_counts' = tag_counts
           /\ port_protocol_counts' = port_protocol_counts
           /\ error' = NoError
           /\ pc' = "flow_lines"
           /\ n' = n + 1 ]_vars

\* after a counted record, an empty line and a 15-field line have been skipped
C2_Witness ==
    /\ pc = "flow_lines"
    /\ n = 3
    /\ HasFourteenFields(flow_log_file[1])
    /\ \E j \in 2..3 : Len(Split(flow_log_file[j])) > 14
    /\ \E j \in 2..3 : Split(flow_log_file[j]) = << >>
    /\ DictSum(tag_counts) = 1

\* C3: after any prefix of the lines, the values of tag_counts and those of
\* port_protocol_counts both sum to the number of 14-field lines in the prefix
C3_SumsEqualValidLines ==
    /\ DictSum(tag_counts) = CountFourteen(Processed)
    /\ DictSum(port_protocol_counts) = CountFourteen(Processed)

\* three lines consumed, one of them skipped, two counted under different keys
C3_Witness ==
    /\ Processed = 3
    /\ CountFourteen(3) = 2
    /\ Len(port_protocol_counts) = 2
    /\ DictSum(tag_counts) = 2

\* the key of the one entry that went up by one from d to e
IncrementedKey(d, e) ==
    CHOOSE key \in DictKeys(e) : DictGet(e, key, 0) = DictGet(d, key, 0) + 1

\* the destination-port field of a 14-field line
PortField(line) == Split(line)[6]

\* the protocol-number field of a 14-field line
ProtocolField(line) == Split(line)[8]

\* the protocol name the Protocol Mapping gives the line, lowercased
ResolvedName(line) == Lower(DictGet(protocol_mapping, ProtocolField(line), Undefined))

\* the (port, protocol name) pair of a 14-field line
ResolvedPair(line) == << PortField(line), ResolvedName(line) >>

\* the tag the Lookup Table configures for a pair it has
Configured(pair) == lookup_dict[CHOOSE j \in 1..Len(lookup_dict) : lookup_dict[j].k = pair].v

Lowercase_undefined == << "u", "n", "d", "e", "f", "i", "n", "e", "d" >>

\* C4 as stated: a 14-field record whose resolved (port, protocol name) pair is a
\* key of the Lookup Table is counted under the configured tag and never under
\* "Untagged"
C4_NeverUntagged ==
    [][ (/\ ConsumesLine
         /\ HasFourteenFields(flow_log_file[n + 1])
         /\ ResolvedPair(flow_log_file[n + 1]) \in DictKeys(lookup_dict))
        => /\ IncrementedKey(tag_counts, tag_counts')
                  = Configured(ResolvedPair(flow_log_file[n + 1]))
           /\ IncrementedKey(tag_counts, tag_counts') # Untagged ]_vars

\* C4 amended: such a record is counted under the tag configured for its pair;
\* that tag is "Untagged" only when the table configures the text "Untagged"
C4_ConfiguredTagCounted ==
    [][ (/\ ConsumesLine
         /\ HasFourteenFields(flow_log_file[n + 1])
         /\ ResolvedPair(flow_log_file[n + 1]) \in DictKeys(lookup_dict))
        => /\ ExactlyOneIncremented(tag_counts, tag_counts')
           /\ IncrementedKey(tag_counts, tag_counts')
                  = Configured(ResolvedPair(flow_log_file[n + 1]))
           /\ (IncrementedKey(tag_counts, tag_counts') = Untagged
                  => \E j \in 1..Len(lookup_file.rows) :
                         /\ Len(lookup_file.rows[j]) = 3
                         /\ Strip(lookup_file.rows[j][3]) = Untagged) ]_vars

\* a record whose protocol name the table spells in upper case has been counted
\* under the tag configured for its pair
C4_Witness ==
    /\ pc = "flow_lines"
    /\ n = 1
    /\ HasFourteenFields(flow_log_file[1])
    /\ DictGet(protocol_mapping, ProtocolField(flow_log_file[1]), Undefined) = <<"T","C","P">>
    /\ ResolvedPair(flow_log_file[1]) \in DictKeys(lookup_dict)
    /\ tag_counts = << [k |-> Configured(ResolvedPair(flow_log_file[1])), v |-> 1] >>
    /\ tag_counts[1].k # Untagged

\* C5: a 14-field record whose protocol number is not a key of the Protocol
\* Mapping is recorded in port_protocol_counts under the name "undefined" and is
\* counted under "Untagged" unless the Lookup Table has (port, "undefined");
\* it is counted as any other record and raises nothing
C5_UnknownProtocolIsUndefined ==
    [][ (/\ ConsumesLine
         /\ HasFourteenFields(flow_log_file[n + 1])
         /\ ProtocolField(flow_log_file[n + 1]) \notin DictKeys(protocol_mapping))
        => LET pair == << PortField(flow_log_file[n + 1]), Lowercase_undefined >>
           IN  /\ ExactlyOneIncremented(port_protocol_counts, port_protocol_counts')
               /\ IncrementedKey(port_protocol_counts, port_protocol_counts') = pair
               /\ ExactlyOneIncremented(tag_counts, tag_counts')
               /\ (pair \notin DictKeys(lookup_dict)
                       => IncrementedKey(tag_counts, tag_counts') = Untagged)
               /\ error' = NoError
               /\ n' = n + 1 ]_vars

\* a record of an unknown protocol number has been counted under "Untagged", the
\* Lookup Table having no entry for its port and "undefined"
C5_Witness ==
    /\ pc = "flow_lines"
    /\ n = 1
    /\ HasFourteenFields(flow_log_file[1])
    /\ ProtocolField(flow_log_file[1]) \notin DictKeys(protocol_mapping)
    /\ << PortField(flow_log_file[1]), Lowercase_undefined >> \notin DictKeys(lookup_dict)
    /\ tag_counts = << [k |-> Untagged, v |-> 1] >>
    /\ port_protocol_counts[1].k[2] = Lowercase_undefined

\* what the Lookup Table gives a pair: its configured tag, or "Untagged"
LookupResult(pair) ==
    IF pair \in DictKeys(lookup_dict) THEN Configured(pair) ELSE Untagged

RECURSIVE SumWhereTag(_, _)
\* the counts of the entries of ports whose lookup result is t, added up
SumWhereTag(ports, t) ==
    IF ports = << >> THEN 0
    ELSE (IF LookupResult(ports[1].k) = t THEN ports[1].v ELSE 0)
         + SumWhereTag(Tail(ports), t)

\* C10: after any prefix of the lines, tag_counts[t] is the sum of
\* port_protocol_counts over the pairs whose lookup result is t, for every tag t;
\* every stored count is at least 1 and tag_counts has no more entries than
\* port_protocol_counts
C10_TagCountsAggregatePairs ==
    /\ \A t \in DictKeys(tag_counts)
             \cup {LookupResult(port_protocol_counts[j].k) : j \in 1..Len(port_protocol_counts)} :
           DictGet(tag_counts, t, 0) = SumWhereTag(port_protocol_counts, t)
    /\ \A j \in 1..Len(tag_counts) : tag_counts[j].v >= 1
    /\ \A j \in 1..Len(port_protocol_counts) : port_protocol_counts[j].v >= 1
    /\ Len(tag_counts) <= Len(port_protocol_counts)

\* two pairs share the tag "Untagged" and a third has a configured tag
C10_Witness ==
    /\ Processed = 3
    /\ Len(port_protocol_counts) = 3
    /\ Len(tag_counts) = 2
    /\ DictGet(tag_counts, Untagged, 0) = 2

\* rows of a reference table its loader has consumed so far
Consumed(loader, file) ==
    IF \E j \in 1..Len(completed) : completed[j] = loader
    THEN Len(file.rows)
    ELSE IF FunctionAt(pc) = loader \/ error.in = loader THEN n ELSE 0

\* the trimmed Decimal of a row of the protocol table
DecimalOf(fields) == Strip(DictRow(protocol_file.header, fields)["Decimal"])

\* the trimmed Keyword of a row of the protocol table
KeywordOf(fields) == Strip(DictRow(protocol_file.header, fields)["Keyword"])

\* trimmed dstport and trimmed, lowercased protocol of a row of the lookup table
PairOf(fields) ==
    LET row == DictRow(lookup_file.header, fields)
    IN  << Strip(row["dstport"]), Lower(Strip(row["protocol"])) >>

\* the trimmed tag of a row of the lookup table
TagOf(fields) == Strip(DictRow(lookup_file.header, fields)["tag"])

\* the value the mapping d holds for key
ValueAt(d, key) == d[CHOOSE j \in 1..Len(d) : d[j].k = key].v

\* C6: in both loaders the mapping holds, for every key the consumed rows
\* produce, the value of the last consumed row with that key, and no other key
C6_LastRowWins ==
    LET pn == Consumed("load_protocol_mapping", protocol_file)
        ln == Consumed("load_lookup_table", lookup_file)
        prows == {j \in 1..pn : protocol_file.rows[j] # << >>}
        lrows == {j \in 1..ln : lookup_file.rows[j] # << >>}
    IN  /\ DictKeys(protocol_mapping) = {DecimalOf(protocol_file.rows[j]) : j \in prows}
        /\ \A j \in prows :
               (\A later \in prows :
                    later > j => DecimalOf(protocol_file.rows[later])
                                     # DecimalOf(protocol_file.rows[j]))
               => ValueAt(protocol_mapping, DecimalOf(protocol_file.rows[j]))
                      = KeywordOf(protocol_file.rows[j])
        /\ DictKeys(lookup_dict) = {PairOf(lookup_file.rows[j]) : j \in lrows}
        /\ \A j \in lrows :
               (\A later \in lrows :
                    later > j => PairOf(lookup_file.rows[later]) # PairOf(lookup_file.rows[j]))
               => ValueAt(lookup_dict, PairOf(lookup_file.rows[j]))
                      = TagOf(lookup_file.rows[j])

\* both tables have been loaded; in each, two rows whose raw key fields differ
\* (in surrounding whitespace, or in the case of the protocol) made the same key
\* with different values
C6_Witness ==
    /\ pc = "done"
    /\ \E j, later \in 1..Len(protocol_file.rows) :
           /\ j < later
           /\ protocol_file.rows[j][1] # protocol_file.rows[later][1]
           /\ DecimalOf(protocol_file.rows[j]) = DecimalOf(protocol_file.rows[later])
           /\ KeywordOf(protocol_file.rows[j]) # KeywordOf(protocol_file.rows[later])
    /\ \E j, later \in 1..Len(lookup_file.rows) :
           /\ j < later
           /\ lookup_file.rows[j][2] # lookup_file.rows[later][2]
           /\ PairOf(lookup_file.rows[j]) = PairOf(lookup_file.rows[later])
           /\ TagOf(lookup_file.rows[j]) # TagOf(lookup_file.rows[later])

\* the lines of a text that ends each line with "\n", each without its "\n"
LinesOf(text) ==
    LET ends == {j \in 1..Len(text) : text[j] = "\n"}
        end(i) == CHOOSE p \in ends : Cardinality({q \in ends : q < p}) = i - 1
    IN  [i \in 1..Cardinality(ends) |->
            SubSeq(text, IF i = 1 THEN 1 ELSE end(i - 1) + 1, end(i) - 1)]

RECURSIVE FirstSeen(_)
\* the distinct elements of a sequence in the order of their first appearance
FirstSeen(seq) ==
    IF seq = << >> THEN << >>
    ELSE LET before == FirstSeen(SubSeq(seq, 1, Len(seq) - 1))
             last == seq[Len(seq)]
         IN  IF \E j \in 1..Len(before) : before[j] = last
             THEN before ELSE Append(before, last)

RECURSIVE ValidLines(_)
\* the lines among the first k of the flow log that have exactly 14 fields
ValidLines(k) ==
    IF k = 0 THEN << >>
    ELSE IF HasFourteenFields(flow_log_file[k])
         THEN Append(ValidLines(k - 1), flow_log_file[k])
         ELSE ValidLines(k - 1)

\* the (port, protocol name) pairs of the valid records, in order of first appearance
PairsInOrder ==
    LET valid == ValidLines(Len(flow_log_file))
    IN  FirstSeen([j \in 1..Len(valid) |-> ResolvedPair(valid[j])])

\* the tags of the valid records, in order of first appearance
TagsInOrder ==
    LET valid == ValidLines(Len(flow_log_file))
    IN  FirstSeen([j \in 1..Len(valid) |-> LookupResult(ResolvedPair(valid[j]))])

\* C7: the report holds the Tag Counts section, one blank line, then the
\* Port/Protocol Combination Counts section; each section has exactly one data
\* line per entry of its counter, in the order in which the keys first appeared
\* among the valid records of the flow log
C7_ReportSectionsInFirstSeenOrder ==
    output.opened =>
        LET lines == LinesOf(output.text)
            tags == TagsInOrder
            pairs == PairsInOrder
            T == Len(tags)
            P == Len(pairs)
        IN  /\ T = Len(tag_counts)
            /\ P = Len(port_protocol_counts)
            /\ Len(lines) = T + P + 5
            /\ output.text[Len(output.text)] = "\n"
            /\ lines[1] = << "T", "a", "g", " ", "C", "o", "u", "n", "t", "s", ":" >>
            /\ lines[2] = << "T", "a", "g", ",", "C", "o", "u", "n", "t" >>
            /\ \A j \in 1..T :
                   lines[2 + j] = tags[j] \o << "," >> \o Str(ValueAt(tag_counts, tags[j]))
            /\ lines[T + 3] = << >>
            /\ lines[T + 4] =
                   << "P", "o", "r", "t", "/", "P", "r", "o", "t", "o", "c", "o", "l", " ", "C", "o", "m", "b", "i", "n", "a", "t", "i", "o", "n" >>
                   \o << " ", "C", "o", "u", "n", "t", "s", ":" >>
            /\ lines[T + 5] = << "P", "o", "r", "t", ",", "P", "r", "o", "t", "o", "c", "o", "l", ",", "C", "o", "u", "n", "t" >>
            /\ \A j \in 1..P :
                   lines[T + 5 + j] = pairs[j][1] \o << "," >> \o pairs[j][2] \o << "," >>
                                      \o Str(ValueAt(port_protocol_counts, pairs[j]))

\* the report of a log whose first record's tag and pair came again after another
\* tag and pair had appeared
C7_Witness ==
    /\ pc = "done"
    /\ Len(tag_counts) = 2
    /\ Len(port_protocol_counts) = 2
    /\ tag_counts[1].v = 2
    /\ port_protocol_counts[1].v = 2
    /\ Len(flow_log_file) = 3
    /\ HasFourteenFields(flow_log_file[3])
    /\ ResolvedPair(flow_log_file[3]) = port_protocol_counts[1].k

\* the calls of main() in the order it makes them
MainOrder ==
    << "load_protocol_mapping", "load_lookup_table", "parse_flow_logs",
       "write_output", "print" >>

\* the completion notice has been printed
NoticeEmitted == \E j \in 1..Len(stdout) : stdout[j][1] = "notice"

\* the position in MainOrder of the call an exception came out of
FailedAt == CHOOSE j \in 1..Len(MainOrder) : MainOrder[j] = error.in

\* C8: the calls of main() return in the order load_protocol_mapping,
\* load_lookup_table, parse_flow_logs, write_output, print; once a call has
\* failed nothing more happens, so the report is not opened and the notice not
\* printed when a loader or the classification failed
C8_StagesInOrderAndAbortOnFailure ==
    /\ [](/\ Len(completed) <= Len(MainOrder)
          /\ completed = SubSeq(MainOrder, 1, Len(completed))
          /\ (output.opened => Len(completed) >= 4)
          /\ (NoticeEmitted => completed = MainOrder /\ output.opened)
          /\ (error # NoError =>
                 /\ completed = SubSeq(MainOrder, 1, FailedAt - 1)
                 /\ ~NoticeEmitted
                 /\ (FailedAt <= 3 => ~output.opened)))
    /\ [][error # NoError => UNCHANGED vars]_vars

\* reading the flow log failed after a record had been counted: both loaders
\* had returned, and the report is not opened
C8_Witness ==
    /\ pc = "aborted"
    /\ error = [type |-> "OSError", in |-> "parse_flow_logs"]
    /\ DictSum(tag_counts) >= 1
    /\ completed = << "load_protocol_mapping", "load_lookup_table" >>
    /\ ~output.opened

\* the columns a header has
Columns(header) == {header[j] : j \in 1..Len(header)}

\* the loader has returned
Returned(loader) == \E j \in 1..Len(completed) : completed[j] = loader

\* C9 as stated: a loader whose table lacks a required column fails, whatever
\* the rows of the table, so it never returns
C9_MissingColumnAlwaysFails ==
    /\ Returned("load_protocol_mapping")
           => {"Decimal", "Keyword"} \subseteq Columns(protocol_file.header)
    /\ Returned("load_lookup_table")
           => {"dstport", "protocol", "tag"} \subseteq Columns(lookup_file.header)

\* the table has a row that is not a blank line
HasDataRow(file) == \E j \in 1..Len(file.rows) : file.rows[j] # << >>

\* every row the loader has consumed is a blank line, which the reader skips
OnlyBlankConsumed(loader, file) ==
    \A j \in 1..Consumed(loader, file) : file.rows[j] = << >>

\* the loader failed on the row it was reading, not on the file itself
FailedOnRow(loader) ==
    pc = "aborted" /\ error.in = loader /\ error.type # "OSError"

\* the row the loader was reading when it failed is a data row
AtDataRow(loader, file) ==
    /\ Consumed(loader, file) < Len(file.rows)
    /\ file.rows[Consumed(loader, file) + 1] # << >>

\* C9 amended: a loader whose table lacks a required column gets past no data
\* row (a row that is not a blank line): it fails at the first one it reads, with
\* KeyError (AttributeError when the row is too short for a column read before
\* the missing one), and it returns, with an empty mapping, only when the table
\* has no data row
C9_MissingColumnFailsAtFirstDataRow ==
    /\ ~({"Decimal", "Keyword"} \subseteq Columns(protocol_file.header)) =>
           /\ Returned("load_protocol_mapping") => ~HasDataRow(protocol_file)
           /\ OnlyBlankConsumed("load_protocol_mapping", protocol_file)
           /\ protocol_mapping = << >>
           /\ FailedOnRow("load_protocol_mapping") =>
                  /\ AtDataRow("load_protocol_mapping", protocol_file)
                  /\ error.type \in {"KeyError", "AttributeError"}
    /\ ~({"dstport", "protocol", "tag"} \subseteq Columns(lookup_file.header)) =>
           /\ Returned("load_lookup_table") => ~HasDataRow(lookup_file)
           /\ OnlyBlankConsumed("load_lookup_table", lookup_file)
           /\ lookup_dict = << >>
           /\ FailedOnRow("load_lookup_table") =>
                  /\ AtDataRow("load_lookup_table", lookup_file)
                  /\ error.type \in {"KeyError", "AttributeError"}

\* load_lookup_table has failed with KeyError at the first data row of a table
\* without the tag column, after a blank line
C9_Witness ==
    /\ pc = "aborted"
    /\ error = [type |-> "KeyError", in |-> "load_lookup_table"]
    /\ "tag" \notin Columns(lookup_file.header)
    /\ n = 1
    /\ lookup_file.rows[1] = << >>
    /\ lookup_dict = << >>

====
